---- MODULE Spec2Model ----
(***************************************************************************)
(* docker-stats-exporter: the translation of `docker stats` records into   *)
(* Prometheus gauges (src/src/main.rs, src/src/convert_to_bytes.rs,        *)
(* src/src/docker.rs).  A record has the fields main.rs reads: container,   *)
(* cpu_perc, mem_usage, net_io and block_io.                               *)
(*                                                                         *)
(* Text is a sequence of one-character strings, so that pop, split and     *)
(* the right-to-left unit scan act on characters as the Rust code does.    *)
(* An f64 is modelled exactly: a finite value is sign * c * 2^p * 5^q with *)
(* c coprime to 10 (every decimal literal and every product with a rate of *)
(* the unit table has exactly one such form), plus inf and nan.  Rounding  *)
(* of the binary format is not modelled.                                   *)
(***************************************************************************)
EXTENDS Integers, Sequences, FiniteSets, TLC

VARIABLES labels, unit_map, pc, stats, idx, registry, result, call

vars == <<labels, unit_map, pc, stats, idx, registry, result, call>>

----------------------------------------------------------------------------
(* Bounds of the model. *)

\* Concurrent requests in flight (worker threads of the runtime).
MaxThreads == 2

\* Records in one snapshot of `docker stats`.
MaxRecords == 2

----------------------------------------------------------------------------
(* Result<T>: Ok(v) or Err(e). *)

Ok(v) == [ok |-> TRUE, val |-> v]

Err(e) == [ok |-> FALSE, err |-> e]

----------------------------------------------------------------------------
(* Characters. *)

LowerLetters == <<"a","b","c","d","e","f","g","h","i","j","k","l","m",
                  "n","o","p","q","r","s","t","u","v","w","x","y","z">>

UpperLetters == <<"A","B","C","D","E","F","G","H","I","J","K","L","M",
                  "N","O","P","Q","R","S","T","U","V","W","X","Y","Z">>

DigitChars == <<"0","1","2","3","4","5","6","7","8","9">>

Range(s) == {s[i] : i \in DOMAIN s}

\* char::is_alphabetic, on the ASCII letters
is_alphabetic(ch) == ch \in Range(LowerLetters) \cup Range(UpperLetters)

is_digit(ch) == ch \in Range(DigitChars)

DigitVal(ch) == (CHOOSE i \in DOMAIN DigitChars : DigitChars[i] = ch) - 1

\* char::to_ascii_lowercase
to_lower(ch) ==
    IF ch \in Range(UpperLetters)
    THEN LowerLetters[CHOOSE i \in DOMAIN UpperLetters : UpperLetters[i] = ch]
    ELSE ch

Lowercase(s) == [i \in DOMAIN s |-> to_lower(s[i])]

----------------------------------------------------------------------------
(* f64 values. *)

Fin(neg, c, p, q) == [k |-> "fin", neg |-> neg, c |-> c, p |-> p, q |-> q]

Inf(neg) == [k |-> "inf", neg |-> neg]

NaN == [k |-> "nan"]

RECURSIVE Normalize(_, _, _, _)
\* n * 2^p * 5^q with the factors 2 and 5 of n moved into the exponents
Normalize(neg, n, p, q) ==
    IF n = 0 THEN Fin(neg, 0, 0, 0)
    ELSE IF n % 2 = 0 THEN Normalize(neg, n \div 2, p + 1, q)
    ELSE IF n % 5 = 0 THEN Normalize(neg, n \div 5, p, q + 1)
    ELSE Fin(neg, n, p, q)

\* the f64 of a natural number literal, such as 1000f64
Num(n) == Normalize(FALSE, n, 0, 0)

\* f64 multiplication
Mul(a, b) ==
    IF a.k = "nan" \/ b.k = "nan" THEN NaN
    ELSE IF a.k = "inf" \/ b.k = "inf"
    THEN IF (a.k = "fin" /\ a.c = 0) \/ (b.k = "fin" /\ b.c = 0)
         THEN NaN
         ELSE Inf(a.neg # b.neg)
    ELSE IF a.c = 0 \/ b.c = 0 THEN Fin(a.neg # b.neg, 0, 0, 0)
    ELSE Fin(a.neg # b.neg, a.c * b.c, a.p + b.p, a.q + b.q)

IsFinite(x) == x.k = "fin"

IsNegative(x) == x.k # "nan" /\ x.neg /\ ~(x.k = "fin" /\ x.c = 0)

RECURSIVE DigitsValue(_)
DigitsValue(s) ==
    IF s = <<>> THEN 0
    ELSE 10 * DigitsValue(SubSeq(s, 1, Len(s) - 1)) + DigitVal(s[Len(s)])

\* the unsigned decimal part of a float literal: digits with at most one '.'
\* and at least one digit (exponent forms are not among the modelled inputs)
IsDecimal(s) ==
    /\ \A i \in DOMAIN s : is_digit(s[i]) \/ s[i] = "."
    /\ Cardinality({i \in DOMAIN s : s[i] = "."}) <= 1
    /\ \E i \in DOMAIN s : is_digit(s[i])

\* the place of the '.', or one past the end
DotIndex(s) ==
    IF \E i \in DOMAIN s : s[i] = "."
    THEN CHOOSE i \in DOMAIN s : s[i] = "."
    ELSE Len(s) + 1

\* the digits before and after the '.' at `dot`, scaled by the number of
\* digits after it
DecimalAt(neg, s, dot) ==
    Normalize(neg,
              DigitsValue(SubSeq(s, 1, dot - 1) \o SubSeq(s, dot + 1, Len(s))),
              IF dot > Len(s) THEN 0 ELSE dot - Len(s),
              IF dot > Len(s) THEN 0 ELSE dot - Len(s))

ParseUnsigned(neg, body) ==
    IF Lowercase(body) \in {<<"i","n","f">>, <<"i","n","f","i","n","i","t","y">>}
    THEN Ok(Inf(neg))
    ELSE IF Lowercase(body) = <<"n","a","n">> THEN Ok(NaN)
    ELSE IF IsDecimal(body) THEN Ok(DecimalAt(neg, body, DotIndex(body)))
    ELSE Err(<<"invalid float literal">>)

\* str::parse::<f64>: an optional sign, then inf / infinity / nan in any
\* case or a decimal number; no surrounding white space is accepted
parse_f64(s) ==
    IF s = <<>> THEN Err(<<"cannot parse float from empty string">>)
    ELSE IF s[1] \in {"+", "-"} THEN ParseUnsigned(s[1] = "-", Tail(s))
    ELSE ParseUnsigned(FALSE, s)

----------------------------------------------------------------------------
(* convert_to_bytes.rs *)

Kilo == Num(1000)

Kibi == Num(1024)

\* lazy_static UNIT_MAP
UNIT_MAP ==
    (<<"B">> :> Num(1))
    @@ (<<"k","B">> :> Kilo)
    @@ (<<"M","B">> :> Mul(Kilo, Kilo))
    @@ (<<"G","B">> :> Mul(Mul(Kilo, Kilo), Kilo))
    @@ (<<"T","B">> :> Mul(Mul(Mul(Kilo, Kilo), Kilo), Kilo))
    @@ (<<"K","i","B">> :> Kibi)
    @@ (<<"M","i","B">> :> Mul(Kibi, Kibi))
    @@ (<<"G","i","B">> :> Mul(Mul(Kibi, Kibi), Kibi))
    @@ (<<"T","i","B">> :> Mul(Mul(Mul(Kibi, Kibi), Kibi), Kibi))

\* a lookup that folds the case of the unit before the match
convert_to_bytes_fold(value, unit) ==
    IF \E u \in DOMAIN unit_map : Lowercase(u) = Lowercase(unit)
    THEN Ok(Mul(unit_map[CHOOSE u \in DOMAIN unit_map :
                            Lowercase(u) = Lowercase(unit)], value))
    ELSE Err(<<"Couldn't convert unit '", unit, "' to bytes.">>)

\* convert_to_bytes(value, unit); unit_map holds the process-wide UNIT_MAP
convert_to_bytes(value, unit) ==
    IF unit \notin DOMAIN unit_map
    THEN Err(<<"Couldn't convert unit '", unit, "' to bytes.">>)
    ELSE Ok(Mul(unit_map[unit], value))

----------------------------------------------------------------------------
(* main.rs: the field parsers *)

Separator == <<" ", "/", " ">>

StartsWith(s, pre) == Len(s) >= Len(pre) /\ SubSeq(s, 1, Len(pre)) = pre

\* the place of the first match of pat in s, or 0
FirstMatch(s, pat) ==
    IF \E i \in 1..Len(s) : StartsWith(SubSeq(s, i, Len(s)), pat)
    THEN CHOOSE i \in 1..Len(s) :
            /\ StartsWith(SubSeq(s, i, Len(s)), pat)
            /\ \A j \in 1..(i - 1) : ~StartsWith(SubSeq(s, j, Len(s)), pat)
    ELSE 0

RECURSIVE split(_, _)
SplitAt(s, pat, i) ==
    IF i = 0 THEN <<s>>
    ELSE <<SubSeq(s, 1, i - 1)>> \o split(SubSeq(s, i + Len(pat), Len(s)), pat)

\* str::split(pat): the pieces between the matches of pat, found left to
\* right without overlap; a text without a match is one piece
split(s, pat) == SplitAt(s, pat, FirstMatch(s, pat))

RECURSIVE TrailingAlphabetic(_)
\* chars().rev().take_while(is_alphabetic): the length of the longest
\* trailing run of letters
TrailingAlphabetic(s) ==
    IF s = <<>> \/ ~is_alphabetic(s[Len(s)]) THEN 0
    ELSE 1 + TrailingAlphabetic(SubSeq(s, 1, Len(s) - 1))

\* `value.parse::<f64>()?` then convert_to_bytes(float_value, unit)
ConvertParsed(float_value, unit) ==
    IF ~float_value.ok THEN float_value
    ELSE convert_to_bytes(float_value.val, unit)

\* value = str[0..index], unit = the rest
ParseAt(str, index) ==
    ConvertParsed(parse_f64(SubSeq(str, 1, index)),
                  SubSeq(str, index + 1, Len(str)))

\* a scan that takes only the last letter as the unit
parse_io_str_last(str) ==
    ParseAt(str, IF str # <<>> /\ is_alphabetic(str[Len(str)])
                 THEN Len(str) - 1 ELSE Len(str))

parse_io_str(str) == ParseAt(str, Len(str) - TrailingAlphabetic(str))

\* the pair of two size fields, each parsed with `?`: the error of the
\* first that fails
PairOf(a, b) ==
    IF ~a.ok THEN a
    ELSE IF ~b.ok THEN b
    ELSE Ok(<<a.val, b.val>>)

\* `let (Some(last), Some(before)) = (v.pop(), v.pop()) else { Err }`, then
\* (parse_io_str(before)?, parse_io_str(last)?)
PopTwoAndParse(v, bad) ==
    IF Len(v) < 2 THEN Err(bad)
    ELSE PairOf(parse_io_str(v[Len(v) - 1]), parse_io_str(v[Len(v)]))

\* the same with the last piece returned first
PopTwoAndParseSwapped(v, bad) ==
    IF Len(v) < 2 THEN Err(bad)
    ELSE PairOf(parse_io_str(v[Len(v)]), parse_io_str(v[Len(v) - 1]))

\* the pair returned with the transmitted bytes first
parse_netio_str_swapped(netio_string) ==
    PopTwoAndParseSwapped(split(netio_string, Separator),
                          <<"Bad netio string: '", netio_string, "'">>)

\* output is the last piece, input the one before it; returns (inp, out)
parse_netio_str(netio_string) ==
    PopTwoAndParse(split(netio_string, Separator),
                   <<"Bad netio string: '", netio_string, "'">>)

parse_blockio_str(blockio_string) ==
    PopTwoAndParse(split(blockio_string, Separator),
                   <<"Bad block IO string: '", blockio_string, "'">>)

\* the pair returned with the limit first
parse_mem_usage_str_swapped(mem_usage_string) ==
    PopTwoAndParseSwapped(split(mem_usage_string, Separator),
                          <<"Bad memory usage string: '", mem_usage_string, "'">>)

\* limit is the last piece, usage the one before it; returns
\* (usage_bytes, limit_bytes)
parse_mem_usage_str(mem_usage_string) ==
    PopTwoAndParse(split(mem_usage_string, Separator),
                   <<"Bad memory usage string: '", mem_usage_string, "'">>)

----------------------------------------------------------------------------
(* main.rs: gauges *)

\* String::pop: the text without its last character (an empty text stays
\* empty)
pop(s) == IF s = <<>> THEN s ELSE SubSeq(s, 1, Len(s) - 1)

\* Opts::const_label inserts into a map: a later label of the same name
\* replaces an earlier one.  The user's labels are inserted after
\* "container".  Gauge::with_opts accepts the options: the metric names are
\* the seven literals below (without '-', so replace("-", "_") leaves them
\* as they are), the help texts are not empty, and the label names of the
\* modelled label sets are valid Prometheus label names.
get_gauge(name, help, value, container_name, labs) ==
    Ok([name |-> name,
        help |-> help,
        labels |-> [k \in {"container"} \cup DOMAIN labs |->
                       IF k \in DOMAIN labs THEN labs[k] ELSE container_name],
        value |-> value])

\* `percent_string.parse()?` then get_gauge
GaugeOfParsed(name, value, help, container_name, labs) ==
    IF ~value.ok THEN value
    ELSE get_gauge(name, help, value.val, container_name, labs)

percent_gauge(name, percent_string, help, container_name, labs) ==
    GaugeOfParsed(name, parse_f64(pop(percent_string)), help, container_name, labs)

GaugeOf(name, help, value, stat, labs) ==
    get_gauge(name, help, value, stat.container, labs).val

\* the seven gauges of one container, or the error of the first step that
\* fails: every step of gauges_for_container ends in `?`
GaugesOf(cpu, mem, net, blk, stat, labs) ==
    IF ~cpu.ok THEN cpu
    ELSE IF ~mem.ok THEN mem
    ELSE IF ~net.ok THEN net
    ELSE IF ~blk.ok THEN blk
    ELSE Ok(<<cpu.val,
              GaugeOf("container_memory_usage_bytes",
                  "Memory usage in bytes for container", mem.val[1], stat, labs),
              GaugeOf("container_memory_limit_bytes",
                  "Memory limit in bytes for container", mem.val[2], stat, labs),
              GaugeOf("container_network_input_bytes",
                  "Network input bytes for container", net.val[1], stat, labs),
              GaugeOf("container_network_output_bytes",
                  "Network output bytes for container", net.val[2], stat, labs),
              GaugeOf("container_block_read_bytes",
                  "Block read bytes for container", blk.val[1], stat, labs),
              GaugeOf("container_block_write_bytes",
                  "Block write bytes for container", blk.val[2], stat, labs)>>)

\* a parsed pair, or (0, 0) in the place of a field that does not parse
OrZero(pair) == IF pair.ok THEN pair ELSE Ok(<<Num(0), Num(0)>>)

\* a derivation that puts (0, 0) in the place of a network field it could
\* not parse
gauges_for_container_default(stat, labs) ==
    GaugesOf(percent_gauge("container_cpu_usage", stat.cpu_perc,
                 "CPU usage percentage for container", stat.container, labs),
             parse_mem_usage_str(stat.mem_usage),
             OrZero(parse_netio_str(stat.net_io)),
             parse_blockio_str(stat.block_io),
             stat, labs)

gauges_for_container(stat, labs) ==
    GaugesOf(percent_gauge("container_cpu_usage", stat.cpu_perc,
                 "CPU usage percentage for container", stat.container, labs),
             parse_mem_usage_str(stat.mem_usage),
             parse_netio_str(stat.net_io),
             parse_blockio_str(stat.block_io),
             stat, labs)

----------------------------------------------------------------------------
(* main.rs: the registry and the rendering.  A registry is the set of the  *)
(* gauges registered in it.                                                *)

\* a registration that refuses any second gauge of a metric name
register_by_name(reg, gauge) ==
    IF \E h \in reg : h.name = gauge.name
    THEN Err(<<"AlreadyReg">>)
    ELSE Ok(reg \cup {gauge})

\* Registry::register: a descriptor of the same name and the same constant
\* label values is already registered (AlreadyReg); one of the same name
\* with other label names or another help text is inconsistent
register(reg, gauge) ==
    IF \E h \in reg : h.name = gauge.name /\ h.labels = gauge.labels
    THEN Err(<<"AlreadyReg">>)
    ELSE IF \E h \in reg : /\ h.name = gauge.name
                           /\ \/ DOMAIN h.labels # DOMAIN gauge.labels
                              \/ h.help # gauge.help
    THEN Err(<<"inconsistent descriptor">>)
    ELSE Ok(reg \cup {gauge})

RECURSIVE RegisterAll(_, _)
\* the inner loop: register each gauge of one container, stopping at the
\* first error
RegisterRest(one, gauges) ==
    IF ~one.ok THEN one ELSE RegisterAll(one.val, gauges)

RegisterAll(reg, gauges) ==
    IF gauges = <<>> THEN Ok(reg)
    ELSE RegisterRest(register(reg, Head(gauges)), Tail(gauges))

\* `for gauge in gauges_for_container(..)? { registry.register(..)?; }`
RegisterGauges(reg, gauges) ==
    IF ~gauges.ok THEN gauges ELSE RegisterAll(reg, gauges.val)

\* Registry::gather and TextEncoder::encode: one family per metric name
\* with its help and type lines and one sample line per registered gauge.
\* The encoder sorts families by name and samples by label values, so the
\* text is determined by this grouping.
encode(reg) ==
    [n \in {g.name : g \in reg} |->
        [help |-> (CHOOSE g \in reg : g.name = n).help,
         type |-> "gauge",
         samples |-> {[labels |-> g.labels, value |-> g.value] :
                         g \in {h \in reg : h.name = n}}]]

\* one registry for the whole process
SharedRegistry(r) == 1

\* `let registry = Registry::new()`: the registry of the call running on
\* thread r is a local of that call
LocalRegistry(r) == r

----------------------------------------------------------------------------
(* Inputs. *)

Threads == 1..MaxThreads

\* The label sets of --labels after parse_labels: none, one label, and one
\* whose key is "container".
LabelSets == {<<>>, ("env" :> "prod"), ("container" :> "x")}

Pair(a, b) == a \o Separator \o b

T_1kB == <<"1","k","B">>
T_2kB == <<"2","k","B">>
T_1p2kB == <<"1",".","2","k","B">>
T_3MiB == <<"3","M","i","B">>
T_100MiB == <<"1","0","0","M","i","B">>
T_200MiB == <<"2","0","0","M","i","B">>
T_0B == <<"0","B">>
T_5GB == <<"5","G","B">>
T_bad == <<"b","a","d">>
T_2XB == <<"2","X","B">>
T_12p5pc == <<"1","2",".","5","%">>
T_abcpc == <<"a","b","c","%">>

Stat(name, cpu, mem, net, blk) ==
    [container |-> name, cpu_perc |-> cpu, mem_usage |-> mem,
     net_io |-> net, block_io |-> blk]

GoodStat(name) ==
    Stat(name, T_12p5pc, Pair(T_100MiB, T_200MiB), Pair(T_1kB, T_2kB),
         Pair(T_0B, T_5GB))

\* The records of the scrapes: two well-formed containers, and "web" with
\* one malformed field of each kind.
Records ==
    {GoodStat("web"), GoodStat("db"),
     Stat("web", T_abcpc, Pair(T_100MiB, T_200MiB), Pair(T_1kB, T_2kB), Pair(T_0B, T_5GB)),
     Stat("web", T_12p5pc, T_bad, Pair(T_1kB, T_2kB), Pair(T_0B, T_5GB)),
     Stat("web", T_12p5pc, Pair(T_100MiB, T_200MiB), Pair(T_1kB, T_2XB), Pair(T_0B, T_5GB)),
     Stat("web", T_12p5pc, Pair(T_100MiB, T_200MiB), Pair(T_1kB, T_2kB), T_0B)}

SeqsUpTo(S, n) == UNION {[1..m -> S] : m \in 0..n}

\* what `docker stats` may print for one scrape
Snapshots == SeqsUpTo(Records, MaxRecords)

\* the snapshots of the concurrent scrapes
ServerSnapshots ==
    {<<>>,
     <<GoodStat("web")>>,
     <<GoodStat("web"), GoodStat("db")>>,
     <<GoodStat("db"), GoodStat("web")>>,
     <<GoodStat("web"), GoodStat("web")>>,
     <<GoodStat("web"), Stat("web", T_12p5pc, T_bad, Pair(T_1kB, T_2kB), Pair(T_0B, T_5GB))>>}

----------------------------------------------------------------------------
(* The server: one scrape per request, requests on concurrent threads. *)

Init ==
    /\ labels \in LabelSets
    /\ unit_map = UNIT_MAP
    /\ pc = [r \in Threads |-> "idle"]
    /\ stats = [r \in Threads |-> <<>>]
    /\ idx = [r \in Threads |-> 1]
    /\ registry = [r \in Threads |-> {}]
    /\ result = [r \in Threads |-> Ok(<<>>)]
    /\ call = [fn |-> "none"]

\* docker_stats_metrics: docker::stats() returned the records of snapshot,
\* and get_prometheus_format starts with a new registry
StatsOk(r, snapshot) ==
    /\ pc[r] = "idle"
    /\ pc' = [pc EXCEPT ![r] = "format"]
    /\ stats' = [stats EXCEPT ![r] = snapshot]
    /\ idx' = [idx EXCEPT ![r] = 1]
    /\ registry' = [registry EXCEPT ![LocalRegistry(r)] = {}]
    /\ UNCHANGED <<labels, unit_map, result, call>>

\* docker::stats() failed (the command could not run, exited with an error
\* or printed no JSON): the request fails
StatsErr(r) ==
    /\ pc[r] = "idle"
    /\ pc' = [pc EXCEPT ![r] = "done"]
    /\ result' = [result EXCEPT ![r] = Err(<<"Docker stats command did bad :(">>)]
    /\ UNCHANGED <<labels, unit_map, stats, idx, registry, call>>

\* get_prometheus_format, one turn of the loop over the containers: derive
\* the gauges of the next record and register each; any error ends the call
Derive(r) ==
    /\ pc[r] = "format"
    /\ idx[r] <= Len(stats[r])
    /\ \E reg \in {RegisterGauges(registry[LocalRegistry(r)],
                       gauges_for_container(stats[r][idx[r]], labels))} :
          IF reg.ok
          THEN /\ registry' = [registry EXCEPT ![LocalRegistry(r)] = reg.val]
               /\ idx' = [idx EXCEPT ![r] = idx[r] + 1]
               /\ UNCHANGED <<pc, result>>
          ELSE /\ pc' = [pc EXCEPT ![r] = "done"]
               /\ result' = [result EXCEPT ![r] = reg]
               /\ UNCHANGED <<registry, idx>>
    /\ UNCHANGED <<labels, unit_map, stats, call>>

\* get_prometheus_format after the loop: gather and encode the registry
Render(r) ==
    /\ pc[r] = "format"
    /\ idx[r] > Len(stats[r])
    /\ pc' = [pc EXCEPT ![r] = "done"]
    /\ result' = [result EXCEPT ![r] = Ok(encode(registry[LocalRegistry(r)]))]
    /\ UNCHANGED <<labels, unit_map, stats, idx, registry, call>>

\* the response is sent and the locals of the call are dropped
Respond(r) ==
    /\ pc[r] = "done"
    /\ pc' = [pc EXCEPT ![r] = "idle"]
    /\ stats' = [stats EXCEPT ![r] = <<>>]
    /\ idx' = [idx EXCEPT ![r] = 1]
    /\ registry' = [registry EXCEPT ![LocalRegistry(r)] = {}]
    /\ result' = [result EXCEPT ![r] = Ok(<<>>)]
    /\ UNCHANGED <<labels, unit_map, call>>

Next ==
    \E r \in Threads :
        \/ \E snapshot \in ServerSnapshots : StatsOk(r, snapshot)
        \/ StatsErr(r)
        \/ Derive(r)
        \/ Render(r)
        \/ Respond(r)

Spec == Init /\ [][Next]_vars

\* One scrape at a time, over every snapshot of up to MaxRecords records.
NextScrape ==
    \/ \E snapshot \in Snapshots : StatsOk(1, snapshot)
    \/ StatsErr(1)
    \/ Derive(1)
    \/ Render(1)
    \/ Respond(1)

SpecScrape == Init /\ [][NextScrape]_vars

----------------------------------------------------------------------------
(* The functions one call at a time, over wider inputs. *)

T_empty == <<>>
T_0 == <<"0">>
T_5 == <<"5">>
T_3 == <<"3">>
T_1p2 == <<"1",".","2">>
T_12p5 == <<"1","2",".","5">>
T_100 == <<"1","0","0">>
T_p5 == <<".","5">>
T_1024 == <<"1","0","2","4">>
T_neg5 == <<"-","5">>
T_2500000 == <<"2","5","0","0","0","0","0">>
T_3kB == <<"3","k","B">>

\* numeric prefixes of a size field
NumberTexts ==
    {T_0, T_5, T_3, T_1p2, T_12p5, T_100, T_p5, T_1024, T_2500000, T_neg5, T_empty,
     <<"1",".","2",".","3">>, <<"1","2"," ">>}

\* unit suffixes: the symbols of the table and spellings that are not in it
UnitTexts ==
    DOMAIN UNIT_MAP
    \cup {<<"K","B">>, <<"k","b">>, <<"m","i","b">>, <<"b">>, <<"M","I","B">>,
          <<"u","n","k","n","o","w","n">>, T_empty}

SizeTexts == {n \o u : n \in NumberTexts, u \in UnitTexts}

\* f64 arguments of convert_to_bytes
Values ==
    {Num(0), Num(1), Num(100), Normalize(FALSE, 12, 0 - 1, 0 - 1),
     Normalize(TRUE, 5, 0, 0), Inf(FALSE), NaN}

PairSegments ==
    {T_1p2kB, T_3MiB, T_100MiB, T_200MiB, T_0B, T_5GB, T_bad, T_2XB, T_empty}

TripleSegments == {T_1kB, T_2kB, T_3kB, T_bad}

\* composite fields of one, two, three and four pieces, and near misses of
\* the separator
PairTexts ==
    PairSegments
    \cup {Pair(a, b) : a \in PairSegments, b \in PairSegments}
    \cup {Pair(a, Pair(b, c)) : a \in TripleSegments, b \in TripleSegments,
                                c \in TripleSegments}
    \cup {Pair(T_1kB, Pair(T_2kB, Pair(T_3kB, T_3MiB))),
          T_1kB \o <<"/">> \o T_2kB,
          T_1kB \o <<" ", "/">> \o T_2kB,
          T_1kB \o <<" ", " ", "/", " ">> \o T_2kB}

PercentTexts ==
    {<<"0","%">>, <<"1","0","0",".","0","0","%">>, T_12p5pc, T_abcpc,
     T_5, <<"5","5">>, T_12p5, <<"%">>, T_empty, <<"-","5","%">>,
     <<"+","5","%">>, <<"i","n","f","%">>, <<"N","a","N","%">>,
     <<"5","%","%">>, <<"5"," ","%">>, <<"5","x">>, <<"1","2",".","5","5">>}

\* records of one container with each field well-formed or malformed
UnitStats ==
    {Stat(n, c, m, t, b) :
        n \in {"web", "my-db"},
        c \in {T_12p5pc, T_abcpc},
        m \in {Pair(T_100MiB, T_200MiB), T_bad},
        t \in {Pair(T_1p2kB, T_3MiB), Pair(T_1kB, T_2XB)},
        b \in {Pair(T_0B, T_5GB), T_0B}}

Others == <<labels, unit_map, pc, stats, idx, registry, result>>

CallConvertToBytes ==
    /\ call.fn = "none"
    /\ \E value \in Values, unit \in UnitTexts :
          call' = [fn |-> "convert_to_bytes", arg |-> <<value, unit>>,
                   ret |-> convert_to_bytes(value, unit)]
    /\ UNCHANGED Others

CallParseIoStr ==
    /\ call.fn = "none"
    /\ \E str \in SizeTexts :
          call' = [fn |-> "parse_io_str", arg |-> str, ret |-> parse_io_str(str)]
    /\ UNCHANGED Others

CallParseNetioStr ==
    /\ call.fn = "none"
    /\ \E str \in PairTexts :
          call' = [fn |-> "parse_netio_str", arg |-> str,
                   ret |-> parse_netio_str(str)]
    /\ UNCHANGED Others

CallParseBlockioStr ==
    /\ call.fn = "none"
    /\ \E str \in PairTexts :
          call' = [fn |-> "parse_blockio_str", arg |-> str,
                   ret |-> parse_blockio_str(str)]
    /\ UNCHANGED Others

CallParseMemUsageStr ==
    /\ call.fn = "none"
    /\ \E str \in PairTexts :
          call' = [fn |-> "parse_mem_usage_str", arg |-> str,
                   ret |-> parse_mem_usage_str(str)]
    /\ UNCHANGED Others

CallPercentGauge ==
    /\ call.fn = "none"
    /\ \E str \in PercentTexts, name \in {"web", "my-db"} :
          call' = [fn |-> "percent_gauge", arg |-> <<str, name>>,
                   ret |-> percent_gauge("container_cpu_usage", str,
                               "CPU usage percentage for container", name, labels)]
    /\ UNCHANGED Others

CallGaugesForContainer ==
    /\ call.fn = "none"
    /\ \E stat \in UnitStats :
          call' = [fn |-> "gauges_for_container", arg |-> stat,
                   ret |-> gauges_for_container(stat, labels)]
    /\ UNCHANGED Others

\* the caller takes the result; the next call can start
Return ==
    /\ call.fn # "none"
    /\ call' = [fn |-> "none"]
    /\ UNCHANGED Others

NextUnit ==
    \/ CallConvertToBytes
    \/ CallParseIoStr
    \/ CallParseNetioStr
    \/ CallParseBlockioStr
    \/ CallParseMemUsageStr
    \/ CallPercentGauge
    \/ CallGaugesForContainer
    \/ Return

SpecUnit == Init /\ [][NextUnit]_vars

----------------------------------------------------------------------------
(* Properties. *)

Bytes(t) == parse_io_str(t).val

Valid(t) == parse_io_str(t).ok

Segments == PairSegments \cup TripleSegments

RECURSIVE PowerOf(_, _)
PowerOf(base, n) == IF n = 0 THEN Num(1) ELSE Mul(Num(base), PowerOf(base, n - 1))

\* decimal symbols scale by powers of 1000, binary symbols by powers of 1024
ExpectedRate ==
    (<<"B">> :> PowerOf(1000, 0))
    @@ (<<"k","B">> :> PowerOf(1000, 1))
    @@ (<<"M","B">> :> PowerOf(1000, 2))
    @@ (<<"G","B">> :> PowerOf(1000, 3))
    @@ (<<"T","B">> :> PowerOf(1000, 4))
    @@ (<<"K","i","B">> :> PowerOf(1024, 1))
    @@ (<<"M","i","B">> :> PowerOf(1024, 2))
    @@ (<<"G","i","B">> :> PowerOf(1024, 3))
    @@ (<<"T","i","B">> :> PowerOf(1024, 4))

\* n / 10^k
Dec(n, k) == Normalize(FALSE, n, 0 - k, 0 - k)

\* non-negative values with the text that writes each
Literals ==
    {<<T_0, Num(0)>>, <<T_5, Num(5)>>, <<T_3, Num(3)>>, <<T_1p2, Dec(12, 1)>>,
     <<T_12p5, Dec(125, 1)>>, <<T_100, Num(100)>>, <<T_p5, Dec(5, 1)>>,
     <<T_1024, Num(1024)>>, <<T_2500000, Num(2500000)>>}

GaugeNamed(gauges, name) == CHOOSE i \in DOMAIN gauges : gauges[i].name = name

ValueNamed(gauges, name) == gauges[GaugeNamed(gauges, name)].value

C2_MemUsageOrder ==
    /\ call.fn = "parse_mem_usage_str" =>
          /\ \A a \in Segments, b \in Segments :
                call.arg = Pair(a, b) /\ Valid(a) /\ Valid(b) =>
                    call.ret = Ok(<<Bytes(a), Bytes(b)>>)
          /\ call.arg = Pair(T_100MiB, T_200MiB) =>
                call.ret = Ok(<<Num(104857600), Num(209715200)>>)
    /\ call.fn = "gauges_for_container" /\ call.ret.ok =>
          /\ \A a \in Segments, b \in Segments :
                call.arg.mem_usage = Pair(a, b) =>
                   /\ ValueNamed(call.ret.val, "container_memory_usage_bytes") = Bytes(a)
                   /\ ValueNamed(call.ret.val, "container_memory_limit_bytes") = Bytes(b)
          /\ call.arg.mem_usage = Pair(T_100MiB, T_200MiB) =>
                /\ ValueNamed(call.ret.val, "container_memory_usage_bytes") = Num(104857600)
                /\ ValueNamed(call.ret.val, "container_memory_limit_bytes") = Num(209715200)

C2_Witness ==
    /\ call.fn = "gauges_for_container"
    /\ call.arg.mem_usage = Pair(T_100MiB, T_200MiB)
    /\ call.ret.ok
    /\ ValueNamed(call.ret.val, "container_memory_limit_bytes") = Num(209715200)

\* C3: each pair parser returns an error for every input whose split on
\* " / " does not yield exactly two segments (one segment, or three or
\* more).
C3_ExactlyTwoSegments ==
    call.fn \in {"parse_netio_str", "parse_blockio_str", "parse_mem_usage_str"} =>
        (Len(split(call.arg, Separator)) # 2 => ~call.ret.ok)

\* C4: percent_gauge fails for every input that does not end in '%', that
\* is empty after stripping, or whose remainder is not a finite
\* non-negative number; when it succeeds the gauge value is the number
\* before the '%'.
C4_PercentStrict ==
    call.fn = "percent_gauge" =>
        LET s == call.arg[1]
            ends == s # <<>> /\ s[Len(s)] = "%"
            rest == parse_f64(SubSeq(s, 1, Len(s) - 1))
        IN /\ call.ret.ok <=>
                (ends /\ rest.ok /\ IsFinite(rest.val) /\ ~IsNegative(rest.val))
           /\ call.ret.ok => call.ret.val.value = rest.val

\* the longest suffix of s made of letters only
LetterSuffix(s) ==
    LET n == CHOOSE m \in 0..Len(s) :
                /\ \A i \in (Len(s) - m + 1)..Len(s) : is_alphabetic(s[i])
                /\ m < Len(s) => ~is_alphabetic(s[Len(s) - m])
    IN SubSeq(s, Len(s) - n + 1, Len(s))

\* C8: for every unit symbol u of the table and every non-negative value v,
\* parse_io_str of v written immediately before u returns v * rate(u), the
\* rates being powers of 1000 and of 1024; the unit is the longest trailing
\* run of letters (an unknown one is reported whole).
C8_SizeField ==
    call.fn = "parse_io_str" =>
        /\ \A lit \in Literals, u \in DOMAIN ExpectedRate :
              call.arg = lit[1] \o u =>
                  call.ret = Ok(Mul(lit[2], ExpectedRate[u]))
        /\ call.arg = <<"1","2",".","5","M","i","B">> => call.ret = Ok(Num(13107200))
        /\ (~call.ret.ok /\ Len(call.ret.err) = 3) =>
              /\ call.ret.err[2] = LetterSuffix(call.arg)
              /\ LetterSuffix(call.arg) \notin DOMAIN ExpectedRate
        /\ call.ret.ok => LetterSuffix(call.arg) \in DOMAIN ExpectedRate

C8_Witness ==
    /\ call.fn = "parse_io_str"
    /\ call.arg = T_1p2 \o <<"G","i","B">>
    /\ call.ret = Ok(Mul(Dec(12, 1), PowerOf(1024, 3)))

\* C9: convert_to_bytes(value, unit) returns value * rate exactly when unit
\* is a symbol of the table, spelled as in the table; for any other unit it
\* returns an error that holds the unit as given; the table stays as it was
\* initialized.
C9_ConvertExact ==
    /\ unit_map = ExpectedRate
    /\ call.fn = "convert_to_bytes" =>
          /\ call.arg[2] \in DOMAIN ExpectedRate =>
                call.ret = Ok(Mul(call.arg[1], ExpectedRate[call.arg[2]]))
          /\ call.arg[2] \notin DOMAIN ExpectedRate =>
                /\ ~call.ret.ok
                /\ call.ret.err = <<"Couldn't convert unit '", call.arg[2], "' to bytes.">>

C9_Witness ==
    /\ call.fn = "convert_to_bytes"
    /\ call.arg[2] = <<"K","B">>
    /\ ~call.ret.ok
    /\ call.ret.err[2] = <<"K","B">>

----------------------------------------------------------------------------
(* Properties of a scrape. *)

\* the parses of the four fields of a record, in the order of the code
FieldParses(stat) ==
    <<percent_gauge("container_cpu_usage", stat.cpu_perc,
          "CPU usage percentage for container", stat.container, labels),
      parse_mem_usage_str(stat.mem_usage),
      parse_netio_str(stat.net_io),
      parse_blockio_str(stat.block_io)>>

Malformed(stat) == \E f \in 1..4 : ~FieldParses(stat)[f].ok

FirstError(stat) ==
    FieldParses(stat)[CHOOSE f \in 1..4 :
                         /\ ~FieldParses(stat)[f].ok
                         /\ \A e \in 1..(f - 1) : FieldParses(stat)[e].ok]

\* the gauges derived from a well-formed record
Derived(stat) == Range(gauges_for_container(stat, labels).val)

\* the loop of get_prometheus_format reaches record j and derives its gauges
Reaches(snapshot, j) == \A i \in 1..j : ~Malformed(snapshot[i])

SameSeries(g, h) == g.name = h.name /\ g.labels = h.labels

\* two samples derived in the scrape have the same name and label set
Collision(snapshot) ==
    \E j \in DOMAIN snapshot :
        /\ Reaches(snapshot, j)
        /\ \E i \in 1..(j - 1) :
              \E g \in Derived(snapshot[i]), h \in Derived(snapshot[j]) :
                  SameSeries(g, h)

Rendered(text, g) ==
    /\ g.name \in DOMAIN text
    /\ [labels |-> g.labels, value |-> g.value] \in text[g.name].samples

\* thread r has the outcome of get_prometheus_format
Scraped(r) ==
    /\ pc[r] = "done"
    /\ result[r] # Err(<<"Docker stats command did bad :(">>)

\* the value each metric of a record has: the parsed value of its field
ParsedValues(stat) ==
    <<<<"container_cpu_usage", FieldParses(stat)[1].val.value>>,
      <<"container_memory_usage_bytes", FieldParses(stat)[2].val[1]>>,
      <<"container_memory_limit_bytes", FieldParses(stat)[2].val[2]>>,
      <<"container_network_input_bytes", FieldParses(stat)[3].val[1]>>,
      <<"container_network_output_bytes", FieldParses(stat)[3].val[2]>>,
      <<"container_block_read_bytes", FieldParses(stat)[4].val[1]>>,
      <<"container_block_write_bytes", FieldParses(stat)[4].val[2]>>>>

\* C5: a malformed field fails the whole scrape: gauges_for_container
\* returns the error of the parse and no gauge of that container, and
\* get_prometheus_format returns that error and no text, whatever was
\* derived from the records before; a text is rendered only when every
\* field of every record parsed.
C5_FailWhole ==
    \A r \in Threads :
        Scraped(r) =>
            /\ (\E i \in DOMAIN stats[r] : Malformed(stats[r][i])) => ~result[r].ok
            /\ (idx[r] <= Len(stats[r]) /\ Malformed(stats[r][idx[r]])) =>
                  /\ result[r] = FirstError(stats[r][idx[r]])
                  /\ gauges_for_container(stats[r][idx[r]], labels) = result[r]
                  /\ registry[r] = UNION {Derived(stats[r][i]) : i \in 1..(idx[r] - 1)}
            /\ result[r].ok =>
                  \A i \in DOMAIN stats[r] :
                      \A m \in DOMAIN ParsedValues(stats[r][i]) :
                          \E s \in result[r].val[ParsedValues(stats[r][i])[m][1]].samples :
                              s.value = ParsedValues(stats[r][i])[m][2]

C5_Witness ==
    /\ Scraped(1)
    /\ Len(stats[1]) = 2
    /\ ~Malformed(stats[1][1])
    /\ Malformed(stats[1][2])
    /\ ~result[1].ok
    /\ registry[1] # {}

\* C6: get_prometheus_format fails with the duplicate-registration error
\* exactly when two samples derived in the scrape have the same metric name
\* and the same label set, as when two records have the same container
\* name; when no two have, every derived sample is registered and rendered.
C6_DuplicateExactly ==
    \A r \in Threads :
        Scraped(r) =>
            /\ result[r] = Err(<<"AlreadyReg">>) <=> Collision(stats[r])
            /\ \A j \in DOMAIN stats[r], i \in DOMAIN stats[r] :
                  (/\ i < j
                   /\ Reaches(stats[r], j)
                   /\ stats[r][i].container = stats[r][j].container)
                  => result[r] = Err(<<"AlreadyReg">>)
            /\ (Reaches(stats[r], Len(stats[r])) /\ ~Collision(stats[r])) =>
                  /\ result[r].ok
                  /\ \A i \in DOMAIN stats[r] :
                        \A g \in Derived(stats[r][i]) : Rendered(result[r].val, g)

C6_Witness ==
    /\ Scraped(1)
    /\ Len(stats[1]) = 2
    /\ stats[1][1].container = stats[1][2].container
    /\ result[1] = Err(<<"AlreadyReg">>)

\* C10: every gauge carries container=<the container name of its record>
\* and every user label unchanged, whatever the user labels are, so records
\* with distinct container names never collide at registration.
C10_ContainerLabelKept ==
    \A r \in Threads :
        /\ \A g \in registry[r] :
              /\ \E i \in DOMAIN stats[r] :
                    i < idx[r] /\ g.labels["container"] = stats[r][i].container
              /\ \A k \in DOMAIN labels : g.labels[k] = labels[k]
        /\ (Scraped(r) /\ result[r] = Err(<<"AlreadyReg">>)) =>
              \E i \in DOMAIN stats[r], j \in DOMAIN stats[r] :
                  i < j /\ stats[r][i].container = stats[r][j].container

\* C7: the outcome of a scrape depends on its own snapshot and the labels
\* only, whatever the other threads do: two scrapes of the same snapshot
\* end with the same outcome, a duplicate-registration error comes from two
\* samples of the scrape's own snapshot, and a rendered text holds the
\* samples of the scrape's own records, all of them and no other.
C7_Isolated ==
    \A r \in Threads :
        Scraped(r) =>
            /\ \A o \in Threads :
                  (Scraped(o) /\ stats[o] = stats[r]) => result[o] = result[r]
            /\ result[r] = Err(<<"AlreadyReg">>) => Collision(stats[r])
            /\ result[r].ok =>
                  /\ \A i \in DOMAIN stats[r] :
                        \A g \in Derived(stats[r][i]) : Rendered(result[r].val, g)
                  /\ \A n \in DOMAIN result[r].val :
                        \A s \in result[r].val[n].samples :
                            \E i \in DOMAIN stats[r] :
                                \E g \in Derived(stats[r][i]) :
                                    /\ g.name = n
                                    /\ g.labels = s.labels
                                    /\ g.value = s.value

C7_Witness ==
    \E r \in Threads, o \in Threads :
        /\ r # o
        /\ Scraped(r)
        /\ Scraped(o)
        /\ stats[r] = stats[o]
        /\ Len(stats[r]) = 2
        /\ result[r].ok
        /\ result[o].ok

====
